---- MODULE Spec2Model ----
(***************************************************************************)
(* Anti-Tarnish Jewellery Store API (src/main.py, src/schemas.py).         *)
(*                                                                         *)
(* The API is a request/response machine over a document store with two   *)
(* collections, "product" and "order".  One action per HTTP operation; an  *)
(* action is the whole handler, from the request to the response and the   *)
(* store it leaves behind.                                                 *)
(*                                                                         *)
(* Conventions                                                             *)
(*   - money is an integer number of thousandths (59.0 is 59000), so that  *)
(*     a stored price may have more than two decimals and round(x, 2) is   *)
(*     a computation; arithmetic is exact decimal arithmetic (binary       *)
(*     floating point error is not modelled);                              *)
(*   - a string that the code inspects by character (a product id) is a    *)
(*     sequence of one-character strings; other strings are TLA+ strings;  *)
(*   - Optional[T] is a sequence of length at most one: <<>> is None and   *)
(*     <<v>> is the value v;                                               *)
(*   - a dict is a function from its keys; d.get(k, default) is Get;       *)
(*   - every gateway call of a handler succeeds or raises independently:   *)
(*     the request carries one flag per call (the calls list_products()    *)
(*     makes inside checkout's loop share one flag).                       *)
(***************************************************************************)
EXTENDS Integers, Sequences, FiniteSets, TLC

VARIABLES
    products,   \* the "product" collection of the store (documents, in order)
    orders,     \* the "order" collection of the store (documents, in order)
    req,        \* the request being answered (operation, arguments, gateway outcomes)
    resp        \* the response to req

vars == <<products, orders, req, resp>>

---------------------------------------------------------------------------
(* Bounds of the model *)

\* most items in one checkout request
MaxItems == 2
\* most Order documents the store holds
MaxOrders == 2
\* largest limit a list request is given
MaxLimit == 4

---------------------------------------------------------------------------
(* Values *)

None == <<>>
Some(v) == <<v>>

\* d.get(k, default)
Get(d, k, default) == IF k \in DOMAIN d THEN d[k] ELSE default

RECURSIVE Rep(_, _)
\* the character c, n times
Rep(c, n) == IF n = 0 THEN <<>> ELSE <<c>> \o Rep(c, n - 1)

HexDigits == {"0", "1", "2", "3", "4", "5", "6", "7", "8", "9",
              "a", "b", "c", "d", "e", "f", "A", "B", "C", "D", "E", "F"}

\* str.lower() of one character (the characters the ids of the model use)
LowerChar(c) ==
    CASE c = "A" -> "a" [] c = "B" -> "b" [] c = "C" -> "c"
      [] c = "D" -> "d" [] c = "E" -> "e" [] c = "F" -> "f"
      [] OTHER -> c

\* ObjectId(s) raises InvalidId unless s is 24 hexadecimal characters
ObjectIdValid(s) == Len(s) = 24 /\ \A i \in 1..Len(s) : s[i] \in HexDigits

\* str(ObjectId(s)): the 24 characters in lower case
ObjectIdStr(s) == [i \in 1..Len(s) |-> LowerChar(s[i])]

\* str(idx) of an index of the seeded catalogue
DigitStr(idx) == CASE idx = 0 -> "0" [] idx = 1 -> "1" [] idx = 2 -> "2" [] OTHER -> "3"

\* f"seed-{idx}"
SeedId(idx) == <<"s", "e", "e", "d", "-", DigitStr(idx)>>

\* round(x, 2) of x thousandths, to the nearest hundredth, ties to even
Round2(x) ==
    LET q == x \div 10
        r == x % 10
    IN  IF r < 5 THEN 10 * q
        ELSE IF r > 5 THEN 10 * (q + 1)
        ELSE IF q % 2 = 0 THEN 10 * q ELSE 10 * (q + 1)

\* a slice that keeps the whole sequence
PySliceWhole(s, n) == s

\* s[:n] of Python, n of either sign
PySliceTo(s, n) ==
    LET stop == IF n >= 0 THEN (IF n < Len(s) THEN n ELSE Len(s))
                ELSE (IF Len(s) + n > 0 THEN Len(s) + n ELSE 0)
    IN  SubSeq(s, 1, stop)

\* A pydantic HttpUrl: a URL is [scheme, rest]; only http and https validate
HttpUrlValid(u) == u.scheme \in {"http", "https"}

Url(rest) == [scheme |-> "https", rest |-> rest]

---------------------------------------------------------------------------
(* The seeded catalogue of list_products *)

Sample ==
    << [title |-> "Luna Halo Ring", price |-> 59000, category |-> "Rings",
        images |-> <<Url("photo-1520962918287")>>, in_stock |-> TRUE,
        stock_qty |-> 25, anti_tarnish |-> TRUE, color_tone |-> "rose-gold"],
       [title |-> "Aurora Tennis Bracelet", price |-> 89000, category |-> "Bracelets",
        images |-> <<Url("photo-1599643477877")>>, in_stock |-> TRUE,
        stock_qty |-> 18, anti_tarnish |-> TRUE, color_tone |-> "platinum"],
       [title |-> "Celeste Pendant Necklace", price |-> 72000, category |-> "Necklaces",
        images |-> <<Url("photo-1617038260897")>>, in_stock |-> TRUE,
        stock_qty |-> 30, anti_tarnish |-> TRUE, color_tone |-> "rose-gold"],
       [title |-> "Nova Stud Earrings", price |-> 45000, category |-> "Earrings",
        images |-> <<Url("photo-1616400619175")>>, in_stock |-> TRUE,
        stock_qty |-> 40, anti_tarnish |-> TRUE, color_tone |-> "platinum"] >>

\* for idx, s in enumerate(sample): s["id"] = f"seed-{idx}"
SeededSample == [i \in 1..Len(Sample) |-> Sample[i] @@ ("id" :> SeedId(i - 1))]

---------------------------------------------------------------------------
(* The document store gateway *)

\* the documents of a collection that match an equality filter
Matching(docs, filt) ==
    SelectSeq(docs, LAMBDA d : \A k \in DOMAIN filt : k \in DOMAIN d /\ d[k] = filt[k])

\* get_documents(collection, filt, limit): the matching documents, at most limit
get_documents(docs, filt, limit) ==
    LET found == Matching(docs, filt)
        cap == IF limit < 0 THEN 0 ELSE IF limit < Len(found) THEN limit ELSE Len(found)
    IN  SubSeq(found, 1, cap)

\* create_document(collection, record): the collection with the record
\* appended under a fresh identifier, the n-th document getting identifier n
NewDocumentId(docs) == Len(docs) + 1

create_document(docs, record) == Append(docs, record @@ ("_id" :> NewDocumentId(docs)))

\* db["product"].find_one({"_id": oid}): the first document with that
\* identifier, or None
find_one(docs, oid) ==
    LET found == Matching(docs, [_id |-> oid])
    IN  IF found = <<>> THEN None ELSE Some(found[1])

\* db["product"].find({"_id": {"$in": oids}})
find_in(docs, oids) == SelectSeq(docs, LAMBDA d : d._id \in oids)

---------------------------------------------------------------------------
(* serialize_doc and list_products *)

serialize_doc(doc) ==
    [k \in (DOMAIN doc \ {"_id"}) \cup {"id"} |-> IF k = "id" THEN doc._id ELSE doc[k]]

\* "if category": None and the empty string are falsy
CategoryGiven(category) == category # None /\ category[1] # ""

\* the seeded catalogue without the category filter of lines 97-98
SeededFallbackUnfiltered(category, limit) == PySliceTo(SeededSample, limit)

\* the except branch of list_products: the seeded catalogue
SeededFallback(category, limit) ==
    LET sample == IF CategoryGiven(category)
                  THEN SelectSeq(SeededSample, LAMBDA s : s.category = category[1])
                  ELSE SeededSample
    IN  PySliceTo(sample, limit)

\* a list_products that also serves the seeded catalogue when the query
\* returns no records
list_products_seeding_empty(prods, category, limit, ok) ==
    LET filt == IF CategoryGiven(category) THEN [category |-> category[1]] ELSE <<>>
        items == get_documents(prods, filt, limit)
    IN  IF ok /\ items # <<>> THEN [i \in 1..Len(items) |-> serialize_doc(items[i])]
        ELSE SeededFallback(category, limit)

\* list_products(category, limit); ok: get_documents returned, ~ok: it raised
list_products(prods, category, limit, ok) ==
    LET filt == IF CategoryGiven(category) THEN [category |-> category[1]] ELSE <<>>
        items == get_documents(prods, filt, limit)
    IN  IF ok THEN [i \in 1..Len(items) |-> serialize_doc(items[i])]
        ELSE SeededFallback(category, limit)

\* the default of list_products' limit parameter
DefaultLimit == 50

---------------------------------------------------------------------------
(* Responses *)

\* no response yet: the request is being handled
NoResponse == [status |-> 0]

Ok(body) == [status |-> 200, body |-> body]

\* HTTPException(status_code=404, detail="Product not found")
NotFound == [status |-> 404, body |-> [detail |-> "Product not found"]]

\* the framework's answer to a request body that fails CheckoutRequest
Unprocessable == [status |-> 422, body |-> [detail |-> "validation error"]]

\* the framework's answer to an exception no handler catches
ServerError == [status |-> 500, body |-> [detail |-> "Internal Server Error"]]

---------------------------------------------------------------------------
(* get_product *)

\* the first p of base with p.get("id") == product_id, or None
FirstWithId(base, product_id) ==
    LET hits == SelectSeq(base, LAMBDA p : Get(p, "id", None) = product_id)
    IN  IF hits = <<>> THEN None ELSE Some(hits[1])

\* the try block of get_product: Some(response) when it returns, None when
\* it raises (InvalidId, a gateway error, or its own HTTPException, all of
\* which "except Exception: pass" swallows)
DirectLookup(prods, product_id, find_ok) ==
    IF ~ObjectIdValid(product_id) \/ ~find_ok THEN None
    ELSE LET doc == find_one(prods, ObjectIdStr(product_id))
         IN  IF doc = None THEN None ELSE Some(Ok(serialize_doc(doc[1])))

get_product(prods, product_id, find_ok, list_ok) ==
    LET direct == IF Len(product_id) = 24
                  THEN DirectLookup(prods, product_id, find_ok) ELSE None
        base == list_products(prods, None, DefaultLimit, list_ok)
        hit == FirstWithId(base, product_id)
    IN  IF direct # None THEN direct[1]
        ELSE IF hit # None THEN Ok(hit[1])
        ELSE NotFound

---------------------------------------------------------------------------
(* checkout *)

\* CheckoutRequest validates: every CartItem has its two required fields
\* (the other fields of the payload are the customer's, always present here)
CheckoutRequestValid(payload) ==
    \A i \in 1..Len(payload.items) :
        {"product_id", "quantity"} \subseteq DOMAIN payload.items[i]

\* line 142 raises InvalidId, outside any try, when an id of 24 characters
\* is not hexadecimal
ObjectIdsRaise(items) ==
    \E i \in 1..Len(items) :
        Len(items[i].product_id) = 24 /\ ~ObjectIdValid(items[i].product_id)

\* ids: the ObjectIds of the ids of 24 characters
BatchIds(items) ==
    {ObjectIdStr(items[i].product_id) :
        i \in {j \in 1..Len(items) : Len(items[j].product_id) = 24}}

\* prod_map.get(product_id): the batch-resolved record under that key, or
\* None; the map is empty when there are no ids and when the lookup raised
ProdMapGet(prods, items, find_ok, product_id) ==
    LET found == IF BatchIds(items) # {} /\ find_ok
                 THEN find_in(prods, BatchIds(items)) ELSE <<>>
        hits == SelectSeq(found, LAMBDA p : p._id = product_id)
    IN  IF hits = <<>> THEN None ELSE Some(hits[Len(hits)])

\* the hardcoded defaults of the lookups
DefaultPrice == 50000
DefaultTitle == "Jewellery Piece"

\* (l or [None])[0] and l[0] of a list of URLs
FirstImage(images) == IF images = <<>> THEN None ELSE Some(images[1])

\* lines 156-171: the price, title and image of one cart item
Resolve(prods, items, find_ok, list_ok, ci) ==
    LET base == ProdMapGet(prods, items, find_ok, ci.product_id)
        seed == FirstWithId(list_products(prods, None, DefaultLimit, list_ok),
                            ci.product_id)
    IN  IF base # None
        THEN [price |-> Get(base[1], "price", 0),
              title |-> Get(base[1], "title", "Item"),
              image |-> FirstImage(Get(base[1], "images", <<>>))]
        ELSE IF seed # None
        THEN [price |-> Get(seed[1], "price", DefaultPrice),
              title |-> Get(seed[1], "title", DefaultTitle),
              image |-> IF "images" \in DOMAIN seed[1]
                        THEN FirstImage(seed[1].images) ELSE None]
        ELSE [price |-> DefaultPrice, title |-> DefaultTitle, image |-> None]

\* line 171 raises IndexError when the record found by the seed lookup has
\* an empty list of images
ResolveRaises(prods, items, find_ok, list_ok, ci) ==
    LET base == ProdMapGet(prods, items, find_ok, ci.product_id)
        seed == FirstWithId(list_products(prods, None, DefaultLimit, list_ok),
                            ci.product_id)
    IN  /\ base = None
        /\ seed # None
        /\ "images" \in DOMAIN seed[1]
        /\ seed[1].images = <<>>

\* lines 174-180: order_items
OrderItems(prods, items, find_ok, list_ok) ==
    [i \in 1..Len(items) |->
        LET r == Resolve(prods, items, find_ok, list_ok, items[i])
        IN  [product_id |-> items[i].product_id, title |-> r.title,
             price |-> r.price, quantity |-> items[i].quantity, image |-> r.image]]

RECURSIVE Subtotal(_)
\* lines 172-173: the sum of line = price * quantity over the items
Subtotal(order_items) ==
    IF order_items = <<>> THEN 0
    ELSE Head(order_items).price * Head(order_items).quantity
         + Subtotal(Tail(order_items))

\* line 182, in thousandths: 100 and 6.0
FreeShippingFrom == 100000
ShippingFee == 6000

\* free shipping only above the threshold
ShippingStrictlyAbove(subtotal) == IF subtotal > FreeShippingFrom THEN 0 ELSE ShippingFee

\* line 182: shipping = 0 if subtotal >= 100 else 6.0
Shipping(subtotal) == IF subtotal >= FreeShippingFrom THEN 0 ELSE ShippingFee

\* line 183: total = round(subtotal + shipping, 2)
Total(subtotal) == Round2(subtotal + Shipping(subtotal))

\* lines 185-199: the arguments of Order(...)
OrderOf(payload, order_items) ==
    [items |-> order_items,
     subtotal |-> Round2(Subtotal(order_items)),
     shipping |-> Shipping(Subtotal(order_items)),
     total |-> Total(Subtotal(order_items)),
     customer_name |-> payload.customer_name,
     customer_email |-> payload.customer_email,
     address_line1 |-> payload.address_line1,
     address_line2 |-> payload.address_line2,
     city |-> payload.city,
     state |-> payload.state,
     postal_code |-> payload.postal_code,
     country |-> payload.country,
     notes |-> payload.notes]

\* schemas.OrderItem validates
OrderItemValid(it) ==
    /\ it.quantity >= 1
    /\ it.image = None \/ HttpUrlValid(it.image[1])

\* schemas.Order validates
OrderValid(order) ==
    /\ \A i \in 1..Len(order.items) : OrderItemValid(order.items[i])
    /\ order.subtotal >= 0
    /\ order.shipping >= 0
    /\ order.total >= 0

\* an attempt to persist that leaves the record behind though it raised
PersistEvenIfFailed(docs, order, create_ok) ==
    [docs |-> create_document(docs, order),
     order_id |-> IF create_ok THEN Some(NewDocumentId(docs)) ELSE None]

\* lines 201-204: the order collection and order_id after the attempt to
\* persist; create_ok: create_document returned, ~create_ok: it raised
Persist(docs, order, create_ok) ==
    IF create_ok
    THEN [docs |-> create_document(docs, order), order_id |-> Some(NewDocumentId(docs))]
    ELSE [docs |-> docs, order_id |-> None]

\* line 206: the receipt
Receipt(order, order_id) ==
    [order_id |-> order_id, subtotal |-> order.subtotal,
     shipping |-> order.shipping, total |-> order.total]

\* checkout(payload) on a payload that validated: the response and the
\* order collection it leaves
checkout(prods, docs, payload, find_ok, list_ok, create_ok) ==
    LET items == payload.items
        raises == \/ ObjectIdsRaise(items)
                  \/ \E i \in 1..Len(items) :
                        ResolveRaises(prods, items, find_ok, list_ok, items[i])
        order == OrderOf(payload, OrderItems(prods, items, find_ok, list_ok))
        saved == Persist(docs, order, create_ok)
    IN  IF raises \/ ~OrderValid(order)
        THEN [resp |-> ServerError, docs |-> docs]
        ELSE [resp |-> Ok(Receipt(order, saved.order_id)), docs |-> saved.docs]

---------------------------------------------------------------------------
(* read_root and test_database *)

read_root == Ok([message |-> "Anti-Tarnish Jewellery API ready"])

\* test_database(): db_set: db is not None; names_ok: list_collection_names()
\* returned; url_set, name_set: DATABASE_URL and DATABASE_NAME are set
test_database(prods, docs, db_set, names_ok, url_set, name_set) ==
    LET names == (IF prods # <<>> THEN <<"product">> ELSE <<>>)
                 \o (IF docs # <<>> THEN <<"order">> ELSE <<>>)
    IN  Ok([backend |-> "Running",
            database |-> IF ~db_set THEN "Available but not initialized"
                         ELSE IF names_ok THEN "Connected & Working"
                         ELSE "Connected but Error",
            database_url |-> IF url_set THEN "Set" ELSE "Not Set",
            database_name |-> IF name_set THEN "Set" ELSE "Not Set",
            connection_status |-> IF db_set THEN "Connected" ELSE "Not Connected",
            collections |-> IF db_set /\ names_ok THEN PySliceTo(names, 10) ELSE <<>>])

---------------------------------------------------------------------------
(* The inputs of the model *)

\* product ids: two stored products, the first one in upper case, a
\* well-formed id no product has, 24 characters that are not hexadecimal,
\* and a short id that is no seed id
OidA == Rep("a", 24)
OidB == Rep("b", 24)
OidUpperA == Rep("A", 24)
OidAbsent == Rep("c", 24)
NotHex24 == Rep("z", 24)
Unknown == <<"a", "b", "c">>

\* a stored product, priced to a tenth of a cent
DocA ==
    [_id |-> OidA, title |-> "Opal Ring", price |-> 99996, category |-> "Rings",
     images |-> <<Url("opal-ring")>>]

\* a stored product that has neither title nor price nor image
DocB == [_id |-> OidB, category |-> "Necklaces", images |-> <<>>]

\* the product collection is written out of band: empty, or two products
ProductCollections == {<<>>, <<DocA, DocB>>}

\* the sequences over S of length at most n
SeqsUpTo(S, n) == UNION {[1..k -> S] : k \in 0..n}

Flags == BOOLEAN

Customer ==
    [customer_name |-> "Ada", customer_email |-> "ada@example.com",
     address_line1 |-> "1 Main St", address_line2 |-> None, city |-> "Paris",
     state |-> "IDF", postal_code |-> "75001", country |-> "US", notes |-> None]

Payload(items) == [items |-> items] @@ Customer

CartItem(product_id, quantity) == [product_id |-> product_id, quantity |-> quantity]

HealthRequests == {[op |-> "health"]}

DiagnosticsRequestsOver(flags) ==
    {[op |-> "diagnostics", db_set |-> d, names_ok |-> n, url_set |-> u, name_set |-> u] :
        d \in flags, n \in flags, u \in flags}

ListRequestsOver(categories, limits) ==
    {[op |-> "list_products", category |-> c, limit |-> l, ok |-> k] :
        c \in categories, l \in limits, k \in Flags}

GetRequestsOver(ids) ==
    {[op |-> "get_product", product_id |-> i, find_ok |-> f, list_ok |-> l] :
        i \in ids, f \in Flags, l \in Flags}

CheckoutRequestsOver(cart_items) ==
    {[op |-> "checkout", payload |-> Payload(its), find_ok |-> f, list_ok |-> l,
      create_ok |-> c] :
        its \in SeqsUpTo(cart_items, MaxItems), f \in Flags, l \in Flags, c \in Flags}

\* every request of the catalogue the model poses
Categories == {None, Some(""), Some("Rings"), Some("Earrings"), Some("Hats")}
Limits == (-1..MaxLimit) \cup {DefaultLimit}
LookupIds == {SeedId(0), SeedId(3), Unknown, OidA, OidB, OidUpperA, OidAbsent, NotHex24}
CatalogueRequests == ListRequestsOver(Categories, Limits) \cup GetRequestsOver(LookupIds)

\* every checkout request the model poses
Quantities == {0, 1, 2}
CartIds == {SeedId(0), Unknown, OidA, OidB, NotHex24}
CartItems ==
    {CartItem(i, q) : i \in CartIds, q \in Quantities}
    \cup {[product_id |-> Unknown]}
CheckoutRequests == CheckoutRequestsOver(CartItems)

\* the requests of a session of the whole API
SessionCartItems == {CartItem(SeedId(0), 2), CartItem(Unknown, 0)}
SessionRequests ==
    HealthRequests
    \cup DiagnosticsRequestsOver({TRUE})
    \cup ListRequestsOver({None, Some("Rings")}, {1})
    \cup GetRequestsOver({SeedId(0), OidA})
    \cup CheckoutRequestsOver(SessionCartItems)

---------------------------------------------------------------------------
(* The machine *)

NoRequest == [op |-> "none"]

Init ==
    /\ products \in ProductCollections
    /\ orders = <<>>
    /\ req = NoRequest
    /\ resp = NoResponse

\* a request arrives once the one before it is answered
Receive ==
    /\ req = NoRequest \/ resp # NoResponse
    /\ \E r \in SessionRequests :
        /\ r.op = "checkout" => Len(orders) < MaxOrders
        /\ req' = r
    /\ resp' = NoResponse
    /\ UNCHANGED <<products, orders>>

HandleHealth ==
    /\ req.op = "health" /\ resp = NoResponse
    /\ resp' = read_root
    /\ UNCHANGED <<products, orders, req>>

\* a listing that serializes the stored documents themselves
HandleListProductsInPlace ==
    /\ req.op = "list_products" /\ resp = NoResponse
    /\ resp' = Ok(list_products(products, req.category, req.limit, req.ok))
    /\ products' = [i \in 1..Len(products) |-> serialize_doc(products[i])]
    /\ UNCHANGED <<orders, req>>

HandleListProducts ==
    /\ req.op = "list_products" /\ resp = NoResponse
    /\ resp' = Ok(list_products(products, req.category, req.limit, req.ok))
    /\ UNCHANGED <<products, orders, req>>

HandleGetProduct ==
    /\ req.op = "get_product" /\ resp = NoResponse
    /\ resp' = get_product(products, req.product_id, req.find_ok, req.list_ok)
    /\ UNCHANGED <<products, orders, req>>

HandleCheckout ==
    /\ req.op = "checkout" /\ resp = NoResponse
    /\ IF CheckoutRequestValid(req.payload)
       THEN LET out == checkout(products, orders, req.payload,
                                req.find_ok, req.list_ok, req.create_ok)
            IN  resp' = out.resp /\ orders' = out.docs
       ELSE resp' = Unprocessable /\ orders' = orders
    /\ UNCHANGED <<products, req>>

HandleDiagnostics ==
    /\ req.op = "diagnostics" /\ resp = NoResponse
    /\ resp' = test_database(products, orders, req.db_set, req.names_ok,
                             req.url_set, req.name_set)
    /\ UNCHANGED <<products, orders, req>>

Next ==
    \/ Receive
    \/ HandleHealth
    \/ HandleListProducts
    \/ HandleGetProduct
    \/ HandleCheckout
    \/ HandleDiagnostics

Spec == Init /\ [][Next]_vars

\* one catalogue request put to a store as it may stand
InitCatalogue ==
    /\ products \in ProductCollections
    /\ orders = <<>>
    /\ req \in CatalogueRequests
    /\ resp = NoResponse

NextCatalogue == HandleListProducts \/ HandleGetProduct

SpecCatalogue == InitCatalogue /\ [][NextCatalogue]_vars

\* the order a checkout of two Luna Halo Rings left in the store
PriorOrder ==
    checkout(<<>>, <<>>, Payload(<<CartItem(SeedId(0), 2)>>), FALSE, FALSE, TRUE).docs

\* one checkout request put to a store as it may stand
InitCheckout ==
    /\ products \in ProductCollections
    /\ orders \in {<<>>, PriorOrder}
    /\ req \in CheckoutRequests
    /\ resp = NoResponse

SpecCheckout == InitCheckout /\ [][HandleCheckout]_vars

---------------------------------------------------------------------------
(* Properties *)

\* the request of operation op has been answered
Answered(op) == req.op = op /\ resp # NoResponse

\* the checkout request was answered with a receipt
Receipted == Answered("checkout") /\ resp.status = 200

RequestedItems == req.payload.items

RECURSIVE SumTo(_, _)
\* f[1] + ... + f[n]
SumTo(f, n) == IF n = 0 THEN 0 ELSE f[n] + SumTo(f, n - 1)

\* the sum over the requested items of resolved price x quantity
RequestedSum ==
    SumTo([i \in 1..Len(RequestedItems) |->
              Resolve(products, RequestedItems, req.find_ok, req.list_ok,
                      RequestedItems[i]).price * RequestedItems[i].quantity],
          Len(RequestedItems))

\* t is x rounded to two decimals: a whole number of hundredths nearest to x
RoundedTo2(t, x) == t % 10 = 0 /\ t - x <= 5 /\ x - t <= 5

\* the totals r carries are those of a sum of sum thousandths
TotalsOf(r, sum) ==
    LET ship == IF sum >= 100000 THEN 0 ELSE 6000
    IN  /\ r.shipping = ship
        /\ RoundedTo2(r.total, sum + ship)
        /\ RoundedTo2(r.subtotal, sum)

\* C1: every receipt, and the Order record persisted with it, has shipping 0
\* when the sum of resolved price x quantity is at least 100 and 6.0
\* otherwise, and total = that sum + shipping rounded to two decimals
C1_ReceiptTotals ==
    Receipted =>
        /\ TotalsOf(resp.body, RequestedSum)
        /\ resp.body.order_id # None => TotalsOf(orders[Len(orders)], RequestedSum)

\* a receipt for two default-priced items, 100.0 in all, persisted: the sum
\* sits on the threshold and ships free
C1_Witness ==
    /\ Receipted
    /\ Len(RequestedItems) = 2
    /\ RequestedSum = 100000
    /\ resp.body.order_id # None
    /\ resp.body.shipping = 0
    /\ resp.body.total = 100000

\* the ids of the seeded catalogue
SeedIds == {SeedId(k) : k \in 0..3}

\* the stored product whose identifier is the id as given
StoredUnder(pid) == {products[k] : k \in {j \in 1..Len(products) : products[j]._id = pid}}

\* an id that is neither a stored product's nor a seeded one's
Unresolvable(pid) == pid \notin SeedIds /\ StoredUnder(pid) = {}

\* the Order record the answered checkout persisted
PersistedOrder == orders[Len(orders)]

\* C2: a checkout whose product ids cannot be resolved, whatever their
\* length or characters, succeeds and prices each item 50.0 under the title
\* "Jewellery Piece"
C2_UnresolvableSucceeds ==
    ( /\ Answered("checkout")
      /\ CheckoutRequestValid(req.payload)
      /\ RequestedItems # <<>>
      /\ \A i \in 1..Len(RequestedItems) :
            /\ Unresolvable(RequestedItems[i].product_id)
            /\ RequestedItems[i].quantity >= 1 )
    => /\ resp.status = 200
       /\ resp.body.subtotal
            = 50000 * SumTo([i \in 1..Len(RequestedItems) |-> RequestedItems[i].quantity],
                            Len(RequestedItems))
       /\ resp.body.order_id # None =>
             \A i \in 1..Len(RequestedItems) :
                /\ PersistedOrder.items[i].price = 50000
                /\ PersistedOrder.items[i].title = "Jewellery Piece"

\* the resolution the precedence (a) batch-resolved gateway record, (b)
\* seeded catalogue entry of that id, (c) hardcoded default gives an id
PrecedenceResolution(pid) ==
    IF Len(pid) = 24 /\ req.find_ok /\ StoredUnder(pid) # {}
    THEN LET d == CHOOSE x \in StoredUnder(pid) : TRUE
         IN  [price |-> IF "price" \in DOMAIN d THEN d.price ELSE 0,
              title |-> IF "title" \in DOMAIN d THEN d.title ELSE "Item",
              image |-> IF d.images = <<>> THEN None ELSE Some(d.images[1])]
    ELSE IF pid \in SeedIds
    THEN LET s == CHOOSE x \in {SeededSample[k] : k \in 1..Len(SeededSample)} : x.id = pid
         IN  [price |-> s.price, title |-> s.title, image |-> Some(s.images[1])]
    ELSE [price |-> 50000, title |-> "Jewellery Piece", image |-> None]

\* C3: every item of a receipt is priced by that precedence in every
\* gateway state; a seed id is priced from the seeded catalogue whether
\* the gateway answers or not
C3_ResolutionPrecedence ==
    Receipted =>
        /\ RoundedTo2(resp.body.subtotal,
                      SumTo([i \in 1..Len(RequestedItems) |->
                                PrecedenceResolution(RequestedItems[i].product_id).price
                                * RequestedItems[i].quantity],
                            Len(RequestedItems)))
        /\ resp.body.order_id # None =>
              \A i \in 1..Len(RequestedItems) :
                 LET e == PrecedenceResolution(RequestedItems[i].product_id)
                     it == PersistedOrder.items[i]
                 IN  it.price = e.price /\ it.title = e.title /\ it.image = e.image

\* the answer to the request had create_document raised where it returned,
\* or returned where it raised
OtherwiseAnswer ==
    checkout(products, orders, req.payload, req.find_ok, req.list_ok, ~req.create_ok).resp

\* C4: a checkout call leaves the orders as they were or adds one Order at
\* the end; a receipt comes with exactly one new Order, whose id it
\* returns, when create succeeded, and with none and order_id null when it
\* failed; the request succeeds, with the same subtotal, shipping and
\* total, whether create succeeds or fails
C4_AtMostOneOrder ==
    [][ (req.op = "checkout" /\ resp = NoResponse /\ resp' # NoResponse) =>
          /\ \/ orders' = orders
             \/ /\ Len(orders') = Len(orders) + 1
                /\ SubSeq(orders', 1, Len(orders)) = orders
          /\ resp'.status # 200 => orders' = orders
          /\ resp'.status = 200 =>
                /\ req.create_ok =>
                      /\ Len(orders') = Len(orders) + 1
                      /\ resp'.body.order_id = Some(orders'[Len(orders')]._id)
                      /\ \A i \in 1..Len(orders) : orders[i]._id # orders'[Len(orders')]._id
                /\ ~req.create_ok =>
                      /\ orders' = orders
                      /\ resp'.body.order_id = None
          /\ CheckoutRequestValid(req.payload) =>
                /\ resp'.status = OtherwiseAnswer.status
                /\ resp'.status = 200 =>
                      /\ resp'.body.subtotal = OtherwiseAnswer.body.subtotal
                      /\ resp'.body.shipping = OtherwiseAnswer.body.shipping
                      /\ resp'.body.total = OtherwiseAnswer.body.total
      ]_vars

\* a receipt with order_id null: create_document raised, the store still
\* holds the one order it held, and the totals are those of two Luna Halo
\* Rings resolved from the seeded catalogue
C4_Witness ==
    /\ Receipted
    /\ ~req.create_ok
    /\ resp.body.order_id = None
    /\ orders = PriorOrder
    /\ resp.body.total = 118000

\* C5: a checkout request with an item of quantity below 1 is refused as a
\* payload validation failure (422) and persists no Order
C5_QuantityRejected ==
    ( /\ Answered("checkout")
      /\ \E i \in 1..Len(RequestedItems) :
            /\ "quantity" \in DOMAIN RequestedItems[i]
            /\ RequestedItems[i].quantity < 1 )
    => /\ resp.status = 422
       /\ orders \in {<<>>, PriorOrder}

\* the stored product a direct lookup of pid finds
LookedUp(pid) == StoredUnder(ObjectIdStr(pid))

\* the seeded catalogue entry of that id, NotFound if there is none
SeededEntryOrNotFound(pid) ==
    LET hits == {k \in 1..Len(SeededSample) : SeededSample[k].id = pid}
    IN  IF hits = {} THEN NotFound ELSE Ok(SeededSample[CHOOSE k \in hits : TRUE])

\* the response is that stored product, its identifier under "id"
ReturnsStored(d) ==
    /\ resp.status = 200
    /\ DOMAIN resp.body = (DOMAIN d \ {"_id"}) \cup {"id"}
    /\ resp.body.id = d._id
    /\ \A k \in DOMAIN d \ {"_id"} : resp.body[k] = d[k]

\* C6: getProduct(id) returns the record a direct lookup finds for an id
\* of 24 characters and NotFound when that lookup finds nothing; for any
\* other id, and when the lookup raised, it returns the seeded catalogue
\* entry of that id, NotFound if there is none
C6_GetProductContract ==
    Answered("get_product") =>
        LET pid == req.product_id
        IN  IF Len(pid) = 24 /\ ObjectIdValid(pid) /\ req.find_ok
            THEN IF LookedUp(pid) # {}
                 THEN ReturnsStored(CHOOSE d \in LookedUp(pid) : TRUE)
                 ELSE resp = NotFound
            ELSE resp = SeededEntryOrNotFound(pid)

\* the seeded catalogue restricted to a category the way the claim reads:
\* all of it when no category is given, the entries of that category else
SeededOf(category) ==
    IF category = None THEN SeededSample
    ELSE SelectSeq(SeededSample, LAMBDA s : s.category = category[1])

\* the first n entries of s
FirstN(s, n) == [i \in {j \in 1..Len(s) : j <= n} |-> s[i]]

\* C7 as claimed: when the gateway query raises, the listing is the seeded
\* sequence restricted to the given category and cut to its first limit
\* entries, for every category and every limit
C7_FallbackAsClaimed ==
    (Answered("list_products") /\ ~req.ok) =>
        resp = Ok(FirstN(SeededOf(req.category), req.limit))

\* C7 as amended: the same for every limit >= 0, an empty-string category
\* counting as no category
C7_FallbackListing ==
    (Answered("list_products") /\ ~req.ok /\ req.limit >= 0) =>
        resp = Ok(FirstN(SeededOf(IF req.category = Some("") THEN None ELSE req.category),
                         req.limit))

\* the gateway is down and one Ring is asked for: the Luna Halo Ring,
\* under the id seed-0
C7_Witness ==
    /\ Answered("list_products")
    /\ ~req.ok
    /\ req.category = Some("Rings")
    /\ req.limit = 1
    /\ Len(resp.body) = 1
    /\ resp.body[1].title = "Luna Halo Ring"
    /\ resp.body[1].price = 59000
    /\ resp.body[1].id = <<"s", "e", "e", "d", "-", "0">>

\* the stored products the query of the request matches
QueryMatches ==
    SelectSeq(products, LAMBDA d :
        ~CategoryGiven(req.category) \/ d.category = req.category[1])

C9_AtMostLimit ==
    (Answered("list_products") /\ req.limit >= 0) => Len(resp.body) <= req.limit

\* the gateway is down and two of the four seeded products are listed
C9_Witness ==
    /\ Answered("list_products")
    /\ ~req.ok
    /\ req.category = None
    /\ req.limit = 2
    /\ Len(resp.body) = 2

\* C10: no step changes the product collection, and a step changes the
\* orders only by checkout appending one Order: every Order stays where it
\* was, as it was
C10_StoreFrame ==
    [][ /\ products' = products
        /\ \/ orders' = orders
           \/ /\ req.op = "checkout"
              /\ Len(orders') = Len(orders) + 1
              /\ SubSeq(orders', 1, Len(orders)) = orders
      ]_vars

\* a product lookup answered after two checkouts persisted their orders
C10_Witness ==
    /\ Answered("get_product")
    /\ Len(orders) = 2
    /\ products # <<>>

====
